---- MODULE Spec2Model ----
(***************************************************************************)
(* Model of packages/cdktf-cli/lib/checkpoint.ts: the anonymous telemetry  *)
(* reporter of cdktf-cli.  Three specifications share the definitions:     *)
(*   Spec          one entry-point call (sendTelemetry or ReportRequest)   *)
(*                 with the https request's events in every order;         *)
(*   SpecDefaults  the defaulting step of ReportRequest over every record; *)
(*   SpecId        getId calls of two processes on the identity files,     *)
(*                 each call split at the point where another process can  *)
(*                 run (between require() and fs.writeFileSync()).         *)
(***************************************************************************)
EXTENDS Integers, Sequences, FiniteSets, TLC

\* ------------------------------------------------------------- bounds
\* getId calls each process of SpecId may start.
MaxCalls == 2

\* ------------------------------------------------------------- values
\* A JavaScript property that is not there reads as undefined.
Undef == "undefined"

\* JavaScript truthiness of a string-or-undefined value: `if (x)`, `!x`, `x || y`.
Truthy(v) == v # Undef /\ v # ""

\* uuidv4(): the n-th identifier drawn; two draws never collide.
Uuid(n) == "uuid-" \o ToString(n)

\* ------------------------------------------------------- identity files
UserPath == "~/.cdktf/config.json"
ProjectPath == "./cdktf.json"
Paths == {UserPath, ProjectPath}

\* The fields a JSON identity file can hold in the model.
FileKeys == {"//", "userId", "projectId", "language"}

EmptyObj == [k \in FileKeys |-> Undef]

\* What is on disk at a path: nothing, text that is not JSON, the JSON text
\* `null`, or a JSON object.
NoFile == [kind |-> "absent", obj |-> EmptyObj]
Garbage == [kind |-> "garbage", obj |-> EmptyObj]
JsonNull == [kind |-> "null", obj |-> EmptyObj]
JsonObj(o) == [kind |-> "object", obj |-> o]

\* JSON.stringify(o, null, 2) followed by the write: the text of an object;
\* undefined-valued properties are not part of the text.
WriteJson(o) == JsonObj(o)

\* The explanatory comment getUserId passes: a text of several lines.
UserComment == "line1\nline2"

\* String.prototype.replaceAll("\n", " ") on the comments of the model.
ReplaceNewlines(s) == IF s = "line1\nline2" THEN "line1 line2" ELSE s

\* require.cache of one process for one path: not loaded, or the module value.
NotLoaded == [loaded |-> FALSE, val |-> NoFile]
Loaded(v) == [loaded |-> TRUE, val |-> v]

\* require(filePath) of a .json file: a loaded module is answered from
\* require.cache without reading the disk; a missing or unparseable file
\* throws and caches nothing; otherwise the parsed value is cached and returned.
Require(c, f) ==
  IF c.loaded THEN [threw |-> FALSE, val |-> c.val, cache |-> c]
  ELSE IF f.kind \in {"absent", "garbage"}
       THEN [threw |-> TRUE, val |-> NoFile, cache |-> c]
       ELSE [threw |-> FALSE, val |-> f, cache |-> Loaded(f)]

\* _idFile of getId: the fresh file's object.
IdFile(key, comment, uuid) ==
  [k \in FileKeys |->
     IF k = key THEN uuid
     ELSE IF k = "//" /\ Truthy(comment) THEN ReplaceNewlines(comment)
     ELSE Undef]

\* { ...jsonFile, [key]: _uuid }
Merge(o, key, uuid) == [o EXCEPT ![key] = uuid]

\* fs.writeFileSync(path, text): throws and leaves the disk alone when the
\* path is not writable.
WriteFileSync(f, writable, o) ==
  IF writable THEN [threw |-> FALSE, file |-> WriteJson(o)]
  ELSE [threw |-> TRUE, file |-> f]

\* getId after its require(): r is what Require answered.  The result is the
\* file on disk, the value returned, whether the call threw, and whether it wrote.
GetIdFinish(r, f, writable, key, comment, uuid) ==
  IF r.threw
  THEN LET w == WriteFileSync(f, writable, IdFile(key, comment, uuid))
       IN [file |-> w.file, ret |-> IF w.threw THEN Undef ELSE uuid,
           threw |-> w.threw, wrote |-> ~w.threw]
  ELSE IF r.val.kind = "null"
  THEN [file |-> f, ret |-> Undef, threw |-> TRUE, wrote |-> FALSE]
  ELSE IF Truthy(r.val.obj[key])
  THEN [file |-> f, ret |-> r.val.obj[key], threw |-> FALSE, wrote |-> FALSE]
  ELSE LET w == WriteFileSync(f, writable, Merge(r.val.obj, key, uuid))
       IN [file |-> w.file, ret |-> IF w.threw THEN Undef ELSE uuid,
           threw |-> w.threw, wrote |-> ~w.threw]

\* getId run without interruption (one process, nothing else writing).
GetId(c, f, writable, key, comment, uuid) ==
  LET r == Require(c, f)
      g == GetIdFinish(r, f, writable, key, comment, uuid)
  IN [file |-> g.file, cache |-> r.cache, ret |-> g.ret, threw |-> g.threw,
      wrote |-> g.wrote]

\* The key and comment of the two call sites, getUserId and getProjectId.
KeyOf(path) == IF path = UserPath THEN "userId" ELSE "projectId"
CommentOf(path) == IF path = UserPath THEN UserComment ELSE Undef

\* The identity files a run can start with.
InitFiles(path) ==
  { NoFile, Garbage, JsonNull,
    JsonObj([EmptyObj EXCEPT !["language"] = "typescript"]),
    JsonObj([EmptyObj EXCEPT !["language"] = "typescript", ![KeyOf(path)] = "id0"]) }

\* ------------------------------------------------------------ the record
\* ReportParams without payload, which is carried along and never read here.
RecFields ==
  {"product", "command", "version", "language", "dateTime", "arch", "os",
   "runID", "userId", "ci", "projectId"}

EmptyRec == [k \in RecFields |-> Undef]

\* What the host answers: new Date(), os.arch(), os.platform(), versionNumber().
Now == "now"
HostArch == "x64"
HostPlatform == "linux"
VersionNumber == "0.0.0"

\* VALID_STATUS_CODES
VALID_STATUS_CODES == {200, 201}

\* process.env.CHECKPOINT_DISABLE: unset, set to the empty string, or set.
DisableEnvs == {Undef, "", "1"}

\* `if (process.env.CHECKPOINT_DISABLE)`
CheckpointDisabledOnlyTrue(v) == v = "true"
CheckpointDisabled(v) == Truthy(v)

\* ciDetect(): false (undefined here, as falsy) or the name of the CI system.
CiOutcomes == {Undef, "github-actions"}

\* ReportRequest lines 139-153: runID, dateTime, arch, os, each filled if falsy.
\* The result is the record and the number of identifiers drawn.
FillHostOverwrite(r, ctr) ==
  [rec |-> [r EXCEPT
              !["runID"] = IF ~Truthy(@) THEN Uuid(ctr + 1) ELSE @,
              !["dateTime"] = Now,
              !["arch"] = IF ~Truthy(@) THEN HostArch ELSE @,
              !["os"] = IF ~Truthy(@) THEN HostPlatform ELSE @],
   ctr |-> IF ~Truthy(r["runID"]) THEN ctr + 1 ELSE ctr]
FillHost(r, ctr) ==
  [rec |-> [r EXCEPT
              !["runID"] = IF ~Truthy(@) THEN Uuid(ctr + 1) ELSE @,
              !["dateTime"] = IF ~Truthy(@) THEN Now ELSE @,
              !["arch"] = IF ~Truthy(@) THEN HostArch ELSE @,
              !["os"] = IF ~Truthy(@) THEN HostPlatform ELSE @],
   ctr |-> IF ~Truthy(r["runID"]) THEN ctr + 1 ELSE ctr]

\* `if (!reportParams.userId && !ci)`: whether getUserId() is called.
NeedsUserId(r, ci) == ~Truthy(r["userId"]) /\ ~Truthy(ci)

\* `if (ci) reportParams.ci = ci`
SetCi(r, ci) == IF Truthy(ci) THEN [r EXCEPT !["ci"] = ci] ELSE r

\* `reportParams.projectId || getProjectId()`: whether getProjectId() is called.
NeedsProjectId(r) == ~Truthy(r["projectId"])

\* Disk state handed through the defaulting step: files, the process's
\* require.cache, the identifiers drawn.
\* ReportRequest lines 155-158: the user identifier.
FillUser(d, ci, wr) ==
  IF NeedsUserId(d.rec, ci)
  THEN LET g == GetId(d.cache[UserPath], d.files[UserPath], wr[UserPath],
                      KeyOf(UserPath), CommentOf(UserPath), Uuid(d.ctr + 1))
       IN [rec |-> IF g.threw THEN d.rec ELSE [d.rec EXCEPT !["userId"] = g.ret],
           files |-> [d.files EXCEPT ![UserPath] = g.file],
           cache |-> [d.cache EXCEPT ![UserPath] = g.cache],
           ctr |-> d.ctr + 1, threw |-> g.threw]
  ELSE d

\* ReportRequest line 164: the project identifier.
FillProject(d, wr) ==
  IF NeedsProjectId(d.rec)
  THEN LET g == GetId(d.cache[ProjectPath], d.files[ProjectPath], wr[ProjectPath],
                      KeyOf(ProjectPath), CommentOf(ProjectPath), Uuid(d.ctr + 1))
       IN [rec |-> IF g.threw THEN d.rec ELSE [d.rec EXCEPT !["projectId"] = g.ret],
           files |-> [d.files EXCEPT ![ProjectPath] = g.file],
           cache |-> [d.cache EXCEPT ![ProjectPath] = g.cache],
           ctr |-> d.ctr + 1, threw |-> g.threw]
  ELSE d

\* ReportRequest lines 139-164, the defaulting step, in the code's order.  An
\* exception of getId ends it where it is thrown: the record keeps what was
\* filled before.
Defaulting(r, ci, fs, c, wr, ctr) ==
  LET h == FillHost(r, ctr)
      u == FillUser([rec |-> h.rec, files |-> fs, cache |-> c, ctr |-> h.ctr,
                     threw |-> FALSE], ci, wr)
  IN IF u.threw THEN u
     ELSE FillProject([u EXCEPT !.rec = SetCi(u.rec, ci)], wr)

\* JSON.stringify(reportParams): the body posted; undefined properties are
\* left out of the text, so they stay undefined in the body read back.
Stringify(r) == [k \in RecFields |-> r[k]]

\* A promise settles once: later calls of ok or ko change nothing.
SettleAgain(promiseState, outcome) == outcome
Settle(promiseState, outcome) ==
  IF promiseState = "pending" THEN outcome ELSE promiseState

\* sendTelemetry lines 78-82: what the try/catch makes of ReportRequest's outcome.
NoCatch(outcome) == outcome
Catch(outcome) == IF outcome = "rejected" THEN "resolved" ELSE outcome

\* ---------------------------------------------------------------- state
Procs == {1, 2}
\* The process that runs the entry points in Spec and SpecDefaults.
Main == 1

VARIABLES
  files,      \* [Paths -> file]: the identity files on disk
  writable,   \* [Paths -> BOOLEAN]: whether fs.writeFileSync succeeds there
  cache,      \* [Procs -> [Paths -> cache entry]]: require.cache per process
  uuidCtr,    \* identifiers drawn from uuidv4() so far
  frame,      \* [Procs -> getId activation]: where each process is in getId
  started,    \* [Procs -> Nat]: getId calls the process has started
  firstRet,   \* [Procs -> [Paths -> value]]: what the first getId call returned
  writers,    \* [Paths -> SUBSET Procs]: who has written the file
  lastWrite,  \* [Paths -> value]: identifier of the latest write to the file
  last,       \* [Procs -> record]: the latest completed getId call
  disableEnv, \* process.env.CHECKPOINT_DISABLE
  ciEnv,      \* what ciDetect() answers in this environment
  pc,         \* "idle", "awaitPost" (ReportRequest waits for post), "done"
  entry,      \* the entry point called: "sendTelemetry" or "ReportRequest"
  rec0,       \* the caller's record as it was handed in
  rec,        \* the caller's record now (ReportRequest fills it in place)
  body,       \* postData, the serialized record handed to post
  posts,      \* https.request calls made
  req,        \* the request: "none", "inflight", "receiving", "unread",
              \* "ended", "errored"
  timedOut,   \* the callback of req.setTimeout has run
  promise,    \* the promise of post: "none", "pending", "fulfilled", "rejected"
  procErrs,   \* processLoggerError calls
  logErrs,    \* logger.error calls
  rrOutcome,  \* the promise of ReportRequest: "none", "pending", "resolved", "rejected"
  stOutcome   \* the promise of sendTelemetry, likewise

idVars == <<frame, started, firstRet, writers, lastWrite, last>>
diskVars == <<files, writable, cache, uuidCtr>>
envVars == <<disableEnv, ciEnv>>
callVars == <<pc, entry, rec0, rec, body, posts, rrOutcome, stOutcome>>
postVars == <<req, timedOut, promise, procErrs, logErrs>>

IdleFrame ==
  [pc |-> "idle", path |-> UserPath, uuid |-> Undef, threw |-> FALSE,
   val |-> NoFile, seen |-> Undef, late |-> FALSE]

NoCall ==
  [done |-> FALSE, path |-> UserPath, ret |-> Undef, threw |-> FALSE,
   wrote |-> Undef, read |-> Undef, seen |-> Undef, late |-> FALSE]

IdInit ==
  /\ frame = [p \in Procs |-> IdleFrame]
  /\ started = [p \in Procs |-> 0]
  /\ firstRet = [p \in Procs |-> [q \in Paths |-> Undef]]
  /\ writers = [q \in Paths |-> {}]
  /\ lastWrite = [q \in Paths |-> Undef]
  /\ last = [p \in Procs |-> NoCall]

CallInit ==
  /\ pc = "idle"
  /\ entry = "none"
  /\ rec0 = EmptyRec
  /\ rec = EmptyRec
  /\ body = EmptyRec
  /\ posts = 0
  /\ req = "none"
  /\ timedOut = FALSE
  /\ promise = "none"
  /\ procErrs = 0
  /\ logErrs = 0
  /\ rrOutcome = "none"
  /\ stOutcome = "none"

\* The value of `key` in the file on disk (undefined unless a JSON object).
OnDisk(path) ==
  IF files[path].kind = "object" THEN files[path].obj[KeyOf(path)] ELSE Undef

\* ---------------------------------------------------------------- SpecId
\* getId lines 91-100: draw the uuid, build _idFile, require() the file.
GetIdRequire(p, path) ==
  /\ frame[p].pc = "idle"
  /\ started[p] < MaxCalls
  /\ LET r == Require(cache[p][path], files[path])
     IN /\ cache' = [cache EXCEPT ![p][path] = r.cache]
        /\ frame' = [frame EXCEPT ![p] =
             [pc |-> "required", path |-> path, uuid |-> Uuid(uuidCtr + 1),
              threw |-> r.threw, val |-> r.val, seen |-> OnDisk(path),
              late |-> /\ \A q \in Procs : frame[q].pc = "idle"
                       /\ \A q \in Procs : last[q].done /\ last[q].path = path]]
  /\ uuidCtr' = uuidCtr + 1
  /\ started' = [started EXCEPT ![p] = @ + 1]
  /\ UNCHANGED <<files, writable, firstRet, writers, lastWrite, last>>
  /\ UNCHANGED <<envVars, callVars, postVars>>

\* getId lines 101-114: the catch branch or the key test, the write, the return.
GetIdReturn(p) ==
  /\ frame[p].pc = "required"
  /\ LET path == frame[p].path
         g == GetIdFinish(frame[p], files[path], writable[path], KeyOf(path),
                          CommentOf(path), frame[p].uuid)
     IN /\ files' = [files EXCEPT ![path] = g.file]
        /\ writers' = [writers EXCEPT ![path] = IF g.wrote THEN @ \cup {p} ELSE @]
        /\ lastWrite' = [lastWrite EXCEPT ![path] =
                           IF g.wrote THEN frame[p].uuid ELSE @]
        /\ firstRet' = [firstRet EXCEPT ![p][path] =
                          IF @ = Undef /\ ~g.threw THEN g.ret ELSE @]
        /\ last' = [last EXCEPT ![p] =
             [done |-> TRUE, path |-> path, ret |-> g.ret, threw |-> g.threw,
              wrote |-> IF g.wrote THEN frame[p].uuid ELSE Undef,
              read |-> IF frame[p].threw \/ frame[p].val.kind # "object"
                       THEN Undef ELSE frame[p].val.obj[KeyOf(path)],
              seen |-> frame[p].seen, late |-> frame[p].late]]
  /\ frame' = [frame EXCEPT ![p] = IdleFrame]
  /\ UNCHANGED <<writable, cache, uuidCtr, started>>
  /\ UNCHANGED <<envVars, callVars, postVars>>

InitId ==
  /\ files \in [Paths -> UNION {InitFiles(q) : q \in Paths}]
  /\ \A q \in Paths : files[q] \in InitFiles(q)
  /\ writable = [q \in Paths |-> TRUE]
  /\ cache = [p \in Procs |-> [q \in Paths |-> NotLoaded]]
  /\ uuidCtr = 0
  /\ IdInit
  /\ disableEnv = Undef
  /\ ciEnv = Undef
  /\ CallInit

NextId ==
  \/ \E p \in Procs, path \in Paths : GetIdRequire(p, path)
  \/ \E p \in Procs : GetIdReturn(p)

vars == <<diskVars, idVars, envVars, callVars, postVars>>

SpecId == InitId /\ [][NextId]_vars

\* ------------------------------------------------------------------ Spec
\* ReportRequest lines 133-169, up to the await: the disable test, the
\* defaulting step, the serialization and the executor of post (lines 31-61),
\* which issues the request.  An exception of getId rejects the promise of
\* ReportRequest, an async function.
ReportRequest(r) ==
  IF CheckpointDisabled(disableEnv)
  THEN /\ rec' = r
       /\ rrOutcome' = "resolved"
       /\ UNCHANGED <<files, cache, uuidCtr, body, posts, req, promise>>
  ELSE LET d == Defaulting(r, ciEnv, files, cache[Main], writable, uuidCtr)
       IN /\ rec' = d.rec
          /\ files' = d.files
          /\ cache' = [cache EXCEPT ![Main] = d.cache]
          /\ uuidCtr' = d.ctr
          /\ IF d.threw
             THEN /\ rrOutcome' = "rejected"
                  /\ UNCHANGED <<body, posts, req, promise>>
             ELSE /\ rrOutcome' = "pending"
                  /\ body' = Stringify(d.rec)
                  /\ posts' = posts + 1
                  /\ req' = "inflight"
                  /\ promise' = "pending"

\* The records a direct caller of ReportRequest hands in.
CallerRecords ==
  { [EmptyRec EXCEPT !["product"] = "cdktf", !["runID"] = run,
                     !["userId"] = user, !["ci"] = ci, !["projectId"] = proj] :
      run \in {Undef, "run-c"}, user \in {Undef, "user-c"},
      ci \in {Undef, "travis-ci"}, proj \in {Undef, "proj-c"} }

\* A caller invokes the exported ReportRequest itself.
CallReportRequest(r) ==
  /\ pc = "idle"
  /\ entry' = "ReportRequest"
  /\ rec0' = r
  /\ ReportRequest(r)
  /\ pc' = IF rrOutcome' = "pending" THEN "awaitPost" ELSE "done"
  /\ UNCHANGED <<stOutcome, logErrs, procErrs, timedOut>>
  /\ UNCHANGED <<writable, idVars, envVars>>

\* sendTelemetry lines 65-83, up to the await of ReportRequest or, when that
\* is settled at once, to the end.
SendTelemetry(command, language) ==
  /\ pc = "idle"
  /\ entry' = "sendTelemetry"
  /\ LET r == [EmptyRec EXCEPT !["command"] = command, !["product"] = "cdktf",
                               !["version"] = VersionNumber, !["dateTime"] = Now,
                               !["language"] = language]
     IN /\ rec0' = r
        /\ ReportRequest(r)
  /\ pc' = IF rrOutcome' = "pending" THEN "awaitPost" ELSE "done"
  /\ stOutcome' = IF rrOutcome' = "pending" THEN "pending" ELSE Catch(rrOutcome')
  /\ logErrs' = IF rrOutcome' = "rejected" /\ stOutcome' = "resolved"
                THEN logErrs + 1 ELSE logErrs
  /\ UNCHANGED <<procErrs, timedOut>>
  /\ UNCHANGED <<writable, idVars, envVars>>

\* ok() or ko(err) is called on the promise of post.  The first call settles
\* it and resumes ReportRequest (lines 168-174): a rejection is caught and
\* handed to processLoggerError, and ReportRequest resolves; sendTelemetry,
\* when it is the caller, resumes after its await and resolves.
PostSettled(outcome) ==
  /\ promise' = Settle(promise, outcome)
  /\ IF promise' # promise
     THEN /\ procErrs' = IF promise' = "rejected" THEN procErrs + 1 ELSE procErrs
          /\ rrOutcome' = "resolved"
          /\ stOutcome' = IF entry = "sendTelemetry" THEN Catch("resolved")
                          ELSE stOutcome
          /\ pc' = "done"
     ELSE UNCHANGED <<procErrs, rrOutcome, stOutcome, pc>>

\* post line 43-48: `if (res.statusCode)` and the test of VALID_STATUS_CODES.
Rejected(statusCode) == statusCode # 0 /\ statusCode \notin VALID_STATUS_CODES

\* post lines 42-55: the response callback.  A status outside
\* VALID_STATUS_CODES rejects and returns before any listener is attached:
\* the response is never read.
Response(statusCode) ==
  /\ req = "inflight"
  /\ IF Rejected(statusCode)
     THEN PostSettled("rejected") /\ req' = "unread"
     ELSE /\ req' = "receiving"
          /\ UNCHANGED <<promise, procErrs, rrOutcome, stOutcome, pc>>
  /\ UNCHANGED <<diskVars, idVars, envVars, entry, rec0, rec, body, posts,
                 timedOut, logErrs>>

\* post lines 52-54: res.on("end").
ResEnd ==
  /\ req = "receiving"
  /\ PostSettled("fulfilled")
  /\ req' = "ended"
  /\ UNCHANGED <<diskVars, idVars, envVars, entry, rec0, rec, body, posts,
                 timedOut, logErrs>>

\* post line 51: res.on("error").
ResError ==
  /\ req = "receiving"
  /\ PostSettled("rejected")
  /\ req' = "errored"
  /\ UNCHANGED <<diskVars, idVars, envVars, entry, rec0, rec, body, posts,
                 timedOut, logErrs>>

\* post line 61: req.on("error"), a network error before any response.
ReqError ==
  /\ req = "inflight"
  /\ PostSettled("rejected")
  /\ req' = "errored"
  /\ UNCHANGED <<diskVars, idVars, envVars, entry, rec0, rec, body, posts,
                 timedOut, logErrs>>

\* post line 58: the callback of req.setTimeout(1000, ...), run once when the
\* socket has been idle for the timeout.  It calls ko and nothing else:
\* neither req.abort() nor req.destroy(), so the request stays as it is.
Timeout ==
  /\ req \in {"inflight", "receiving", "unread"}
  /\ ~timedOut
  /\ timedOut' = TRUE
  /\ PostSettled("rejected")
  /\ UNCHANGED <<diskVars, idVars, envVars, entry, rec0, rec, body, posts,
                 logErrs, req>>

Init ==
  /\ files \in [Paths -> UNION {InitFiles(q) : q \in Paths}]
  /\ \A q \in Paths : files[q] \in InitFiles(q)
  /\ writable \in [Paths -> BOOLEAN]
  /\ cache = [p \in Procs |-> [q \in Paths |-> NotLoaded]]
  /\ uuidCtr = 0
  /\ IdInit
  /\ disableEnv \in DisableEnvs
  /\ ciEnv \in CiOutcomes
  /\ CallInit

Next ==
  \/ \E r \in CallerRecords : CallReportRequest(r)
  \/ \E language \in {Undef, "typescript"} : SendTelemetry("diff", language)
  \/ \E statusCode \in {200, 201, 500} : Response(statusCode)
  \/ ResEnd
  \/ ResError
  \/ ReqError
  \/ Timeout

Spec == Init /\ [][Next]_vars

\* ---------------------------------------------------------- SpecDefaults
\* The records the defaulting step is applied to: every field it fills is
\* absent, empty or set by the caller.
DefaultingInputs ==
  { [EmptyRec EXCEPT !["product"] = "cdktf", !["runID"] = run, !["dateTime"] = dt,
                     !["arch"] = arch, !["os"] = os, !["userId"] = user,
                     !["ci"] = ci, !["projectId"] = proj] :
      run \in {Undef, "", "run-c"}, dt \in {Undef, "date-c"},
      arch \in {Undef, "arm64"}, os \in {Undef, "darwin"},
      user \in {Undef, "", "user-c"},
      ci \in {Undef, "github-actions", "travis-ci"},
      proj \in {Undef, "", "proj-c"} }

\* ReportRequest lines 139-164 applied to the record `rec` in place; rec0
\* keeps the record as it was before.
ApplyDefaulting(from, to) ==
  /\ pc = from
  /\ pc' = to
  /\ LET d == Defaulting(rec, ciEnv, files, cache[Main], writable, uuidCtr)
     IN /\ rec0' = rec
        /\ rec' = d.rec
        /\ files' = d.files
        /\ cache' = [cache EXCEPT ![Main] = d.cache]
        /\ uuidCtr' = d.ctr
        /\ rrOutcome' = IF d.threw THEN "rejected" ELSE "pending"
  /\ UNCHANGED <<writable, idVars, envVars, postVars>>
  /\ UNCHANGED <<entry, body, posts, stOutcome>>

\* The step on the caller's record, and the step again on its own result.
DefaultRecord == ApplyDefaulting("idle", "defaulted")
DefaultAgain == ApplyDefaulting("defaulted", "redefaulted")

InitDefaults ==
  /\ files \in [Paths -> UNION {InitFiles(q) : q \in Paths}]
  /\ \A q \in Paths : files[q] \in InitFiles(q)
  /\ writable \in [Paths -> BOOLEAN]
  /\ cache = [p \in Procs |-> [q \in Paths |-> NotLoaded]]
  /\ uuidCtr = 0
  /\ IdInit
  /\ disableEnv = Undef
  /\ ciEnv \in CiOutcomes
  /\ pc = "idle"
  /\ entry = "ReportRequest"
  /\ rec \in DefaultingInputs
  /\ rec0 = rec
  /\ body = EmptyRec
  /\ posts = 0
  /\ req = "none"
  /\ timedOut = FALSE
  /\ promise = "none"
  /\ procErrs = 0
  /\ logErrs = 0
  /\ rrOutcome = "none"
  /\ stOutcome = "none"

NextDefaults == DefaultRecord \/ DefaultAgain

SpecDefaults == InitDefaults /\ [][NextDefaults]_vars

\* ------------------------------------------------------- claims on getId
\* C2: with no other writer, every getId call of a process on a path returns
\* the identifier its first call on that path returned: the identifier is
\* never rotated.
C2_SameIdOnEveryCall ==
  \A p \in Procs :
    (/\ last[p].done
     /\ ~last[p].threw
     /\ writers[last[p].path] \subseteq {p}
     /\ \A q \in Procs \ {p} : started[q] = 0)
    => last[p].ret = firstRet[p][last[p].path]

\* C7: on an existing parseable identity file, with no other process at work,
\* a getId call that finds the key returns its value and leaves the file as
\* it is; a call that does not find it writes the old object with only the
\* key added.  No field that was present is changed or removed.
C7_ExistingFieldsKept ==
  [][\A p \in Procs :
       (/\ frame[p].pc = "required"
        /\ frame'[p].pc = "idle"
        /\ \A q \in Procs \ {p} : started[q] = 0
        /\ files[frame[p].path].kind = "object")
       => LET path == frame[p].path
              old == files[path].obj
          IN IF Truthy(old[KeyOf(path)])
             THEN /\ files'[path] = files[path]
                  /\ last'[p].ret = old[KeyOf(path)]
             ELSE files'[path] = JsonObj(Merge(old, KeyOf(path), last'[p].ret))]_vars

\* C10: when the getId calls of two processes race on one file, the file ends
\* as a JSON object whose key is the identifier of the last write, every call
\* returned the identifier it wrote or the one it read, and every call made
\* after the race returns the value the file holds.
C10_LastWriterWins ==
  \A p \in Procs :
    (last[p].done /\ ~last[p].threw)
    => /\ writers[last[p].path] # {}
            => /\ files[last[p].path].kind = "object"
               /\ (\A q \in Procs : frame[q].pc = "idle")
                    => OnDisk(last[p].path) = lastWrite[last[p].path]
       /\ last[p].ret \in {last[p].wrote, last[p].read}
       /\ (last[p].late /\ Truthy(last[p].seen)) => last[p].ret = last[p].seen

\* -------------------------------------------------- claims on the pipeline
\* The request has neither ended nor failed: it is in flight, or its
\* response is being read.
InProgress == req \in {"inflight", "receiving"}

\* The socket of the request is open: in progress, or answered and not read.
SocketOpen == req \in {"inflight", "receiving", "unread"}

\* C1: the record ReportRequest serializes never has both userId and ci set.
C1_UserIdOrCiNotBoth ==
  posts > 0 => ~(Truthy(body["userId"]) /\ Truthy(body["ci"]))

\* C3: with CHECKPOINT_DISABLE set, no step makes a request, touches the
\* identity files, reads one or draws an identifier; the caller's record
\* stays as handed in and ReportRequest resolves.
C3_DisabledIsNoOp ==
  [][Truthy(disableEnv) =>
       /\ UNCHANGED <<files, cache, uuidCtr, posts, req, promise, body>>
       /\ rec' = rec0'
       /\ pc' = "done" => rrOutcome' = "resolved"]_vars

C3_Witness ==
  /\ Truthy(disableEnv)
  /\ entry = "ReportRequest"
  /\ pc = "done"
  /\ rrOutcome = "resolved"
  /\ posts = 0

\* C4: whatever the order of the response, error and timeout events, a
\* rejected post is logged by processLoggerError exactly once (and nothing is
\* logged otherwise), ReportRequest resolves, and the caller of sendTelemetry
\* sees no rejection.
C4_FailureLoggedOnce ==
  /\ procErrs = IF promise = "rejected" THEN 1 ELSE 0
  /\ promise = "rejected" =>
       /\ rrOutcome = "resolved"
       /\ pc = "done"
       /\ entry = "sendTelemetry" => stOutcome = "resolved"

\* The timeout fired first, then a response came and ended.
C4_Witness ==
  /\ promise = "rejected"
  /\ timedOut
  /\ req = "ended"
  /\ procErrs = 1

\* C5: once the timeout has fired, post is rejected and the request is no
\* longer in flight: no socket stays open for it.
C5_TimeoutAborts ==
  timedOut => (promise = "rejected" /\ ~SocketOpen)

\* C6: sendTelemetry never rejects: when ReportRequest rejects (an identity
\* file could not be read or written) the error goes to logger.error, when
\* post rejects it goes to processLoggerError, and the promise resolves.
C6_SendTelemetryNeverRaises ==
  entry = "sendTelemetry" =>
    /\ stOutcome # "rejected"
    /\ pc = "done" => stOutcome = "resolved"
    /\ rrOutcome = "rejected" => logErrs = 1
    /\ promise = "rejected" => procErrs = 1

C6_Witness ==
  /\ entry = "sendTelemetry"
  /\ pc = "done"
  /\ rrOutcome = "rejected"
  /\ stOutcome = "resolved"
  /\ logErrs = 1

\* C9: with the disable flag unset, a resolved ReportRequest has issued exactly
\* one POST, whose attempt is over (fulfilled, or rejected and logged once)
\* and whose request is no longer in progress.
C9_ResolvesAfterTheAttempt ==
  (rrOutcome = "resolved" /\ ~Truthy(disableEnv)) =>
    /\ posts = 1
    /\ promise \in {"fulfilled", "rejected"}
    /\ procErrs = IF promise = "rejected" THEN 1 ELSE 0
    /\ ~InProgress

\* ------------------------------------------------ claims on the defaulting
FilledIfAbsent == {"runID", "dateTime", "arch", "os", "userId", "projectId"}

\* C8 as stated: every field of runID, dateTime, arch, os, userId, ci and
\* projectId that the caller set keeps its value through the defaulting step.
C8_SetFieldsKept ==
  pc \in {"defaulted", "redefaulted"} =>
    \A f \in FilledIfAbsent \cup {"ci"} : Truthy(rec0[f]) => rec[f] = rec0[f]

\* C8 amended: runID, dateTime, arch, os, userId and projectId keep a
\* non-empty value the caller set; ci becomes the detected name when a CI
\* system is detected and keeps the caller's value otherwise; the step
\* applied again to its own result in the same environment changes nothing.
C8_SetFieldsKeptExceptCi ==
  pc \in {"defaulted", "redefaulted"} =>
    /\ \A f \in FilledIfAbsent : Truthy(rec0[f]) => rec[f] = rec0[f]
    /\ rec["ci"] = IF Truthy(ciEnv) THEN ciEnv ELSE rec0["ci"]
    /\ pc = "redefaulted" => rec = rec0

\* Every field was set by the caller, and a different CI system is detected.
C8_Witness ==
  /\ pc = "defaulted"
  /\ \A f \in FilledIfAbsent : Truthy(rec0[f])
  /\ rec0["ci"] = "travis-ci"
  /\ ciEnv = "github-actions"
  /\ rec["ci"] = "github-actions"

====
